---------------------------- MODULE Spec2Model ----------------------------
(***************************************************************************)
(* The XAIGER backend (backends/aiger/xaiger.cc): struct XAigerWriter,    *)
(* its constructor (classification, box ordering and padding, inout       *)
(* splitting, input numbering, output list), bit2aig/mkgate, write_aiger, *)
(* write_map and aiger_encode.                                             *)
(*                                                                         *)
(* A SigBit is modelled as an integer.  The four constant bits keep the   *)
(* values of RTLIL::State; every wire of the model is one bit wide, so a  *)
(* wire and its bit 0 share one identity, and the integer order of the    *)
(* identities is the order of SigBit::operator< (constants first, then    *)
(* wires by name, wires created later by the pass sorting last).          *)
(***************************************************************************)
EXTENDS Integers, Sequences, FiniteSets, TLC

S0 == 0
S1 == 1
Sx == 2
Sz == 3
NONE == -1            \* no such connection / no such attribute / a = -1
WireBase == 10        \* identities of the wires of the design start here
PadBase == 40         \* wires added by addWire(NEW_ID) when padding a box
InoutBase == 60       \* the "$<wire>$inout.out" wire of wire w is w + InoutBase - WireBase

\* ------------------------------------------------------------------ bounds
NumCells == 2         \* cells of a generated logic network
MaxChain == 1         \* inverters between two boxes of a generated chain
MaxClass == 2         \* largest abc9_mergeability value of a flop box
MaxEncLen == 2        \* integers encoded back to back

VARIABLES
    module,       \* the design: [wires, cells, connections]
    holes_mode,   \* constructor argument
    pc,           \* position of the pass
    err,          \* why the pass stopped, "" while it runs
    xw,           \* the fields of XAigerWriter
    loc,          \* the locals of the constructor that live across its loops
    out,          \* what write_aiger and write_map wrote
    enc           \* the integers handed to aiger_encode and the bytes it wrote

vars == <<module, holes_mode, pc, err, xw, loc, out, enc>>

\* ----------------------------------------------------------------- helpers
EmptyMap == [k \in {} |-> 0]

Put(f, k, v) == [x \in (DOMAIN f) \cup {k} |-> IF x = k THEN v ELSE f[x]]

Has(f, k) == k \in DOMAIN f

MinOf(S) == CHOOSE x \in S : \A y \in S : x <= y

RECURSIVE SortSet(_)
SortSet(S) == IF S = {} THEN <<>> ELSE LET m == MinOf(S) IN <<m>> \o SortSet(S \ {m})

Range(s) == {s[i] : i \in 1..Len(s)}

IsWire(b) == b >= WireBase

\* ------------------------------------------------------------------ design
\* A wire: port_input, port_output, the keep attribute, the init attribute
\* (NONE when absent) and port_id.
Wire(pi, po, keep) == [port_input |-> pi, port_output |-> po, keep |-> keep,
                       init |-> NONE, port_id |-> 0]

PlainWire == Wire(FALSE, FALSE, FALSE)

\* A cell: its type and its connections.  a and b are the input ports (A, B,
\* D of a register, the input of a box or of another cell), y the output
\* port; a box with type "IOBOX" has b as an inout port.  NONE: unconnected.
\* cls is the abc9_mergeability attribute, currQ the wire named
\* "<cell>.$currQ" (NONE when the design has no such wire).
Cell(type, a, b, y) == [type |-> type, a |-> a, b |-> b, y |-> y,
                        cls |-> NONE, currQ |-> NONE]

BoxTypes == {"BOX", "IOBOX", "FBOX"}

\* box_module->ports, sorted by name, with port_input and port_output.
BoxPorts(type) ==
    IF type = "IOBOX"
    THEN << [name |-> "a", port_input |-> TRUE, port_output |-> FALSE],
            [name |-> "b", port_input |-> TRUE, port_output |-> TRUE],
            [name |-> "y", port_input |-> FALSE, port_output |-> TRUE] >>
    ELSE << [name |-> "a", port_input |-> TRUE, port_output |-> FALSE],
            [name |-> "y", port_input |-> FALSE, port_output |-> TRUE] >>

Conn(cell, port) == IF port = "a" THEN cell.a ELSE IF port = "b" THEN cell.b ELSE cell.y

SetConn(cell, port, bit) ==
    IF port = "a" THEN [cell EXCEPT !.a = bit]
    ELSE IF port = "b" THEN [cell EXCEPT !.b = bit]
    ELSE [cell EXCEPT !.y = bit]

\* ------------------------------------------------------------------ sigmap
\* SigMap(module): the bits joined by the connections of the module form one
\* node; a constant represents its node, otherwise the wire added first.
\* The map is built once, from the connections the design has at construction.
RECURSIVE Reach(_, _)
Reach(conns, S) ==
    LET T == S \cup {c[1] : c \in {d \in conns : d[2] \in S /\ IsWire(d[2])}}
               \cup {c[2] : c \in {d \in conns : d[1] \in S}}
    IN  IF T = S THEN S ELSE Reach(conns, T)

Node(conns, b) == Reach(conns, {b})

sigmap(conns, b) ==
    IF ~IsWire(b) THEN b
    ELSE LET n == Node(conns, b)
             k == {x \in n : ~IsWire(x)}
         IN  IF k # {} THEN MinOf(k) ELSE MinOf(n)

\* ------------------------------------------------------------ writer state
\* The fields of a freshly constructed XAigerWriter.  ff_bits is kept as the
\* sequence of its insertions, each [bit, cls]; ci_bits and co_bits hold
\* [bit, cell, port]; pools and dicts are sets and functions.
FreshWriter ==
    [input_bits |-> {}, output_bits |-> {},
     not_map |-> EmptyMap, alias_map |-> EmptyMap, and_map |-> EmptyMap,
     ci_bits |-> <<>>, co_bits |-> <<>>, ff_bits |-> <<>>,
     aig_gates |-> <<>>, aig_outputs |-> <<>>,
     aig_m |-> 0, aig_i |-> 0, aig_l |-> 0, aig_o |-> 0, aig_a |-> 0,
     aig_map |-> EmptyMap, ordered_outputs |-> EmptyMap,
     box_list |-> <<>>, omode |-> FALSE,
     visits |-> EmptyMap]     \* how often bit2aig ran past its lookup, per bit

\* sigmap holds the connections the SigMap was built from.
FreshLocals(m) ==
    [sigmap |-> m.connections,
     undriven_bits |-> {}, unused_bits |-> {}, keep_bits |-> {},
     bit_drivers |-> EmptyMap, bit_users |-> EmptyMap,
     nodes |-> {}, edges |-> {}, sorted |-> <<>>,
     abc9_box_seen |-> FALSE, flop_boxes |-> <<>>,
     ff_aig_map |-> EmptyMap]

\* The state a phase of the constructor works on.
St(m, x, l, o) == [m |-> m, x |-> x, l |-> l, f |-> o.f, map |-> o.map, err |-> ""]

Fail(s, e) == [s EXCEPT !.err = e]

FfKeys(x) == {x.ff_bits[i].bit : i \in 1..Len(x.ff_bits)}

AddTo(f, k, v) == Put(f, k, (IF Has(f, k) THEN f[k] ELSE {}) \cup {v})

\* --------------------------------------------------- constructor: the wires
\* One iteration of the loop over module->wires() (the wire is one bit wide).
\* WireStep that skips no output.
WireStep_all(s, wirebit) ==
    LET wire == s.m.wires[wirebit]
        bit == sigmap(s.l.sigmap, wirebit)
        isin == wire.port_input \/ wire.keep
        isout == wire.port_output \/ wire.keep
        al1 == IF isin /\ bit # wirebit THEN Put(s.x.alias_map, bit, wirebit)
               ELSE s.x.alias_map
    IN  [s EXCEPT !.l.undriven_bits = IF IsWire(bit) THEN @ \cup {bit} ELSE @,
                  !.l.unused_bits = IF IsWire(bit) THEN @ \cup {bit} ELSE @,
                  !.l.keep_bits = IF wire.keep THEN @ \cup {bit} ELSE @,
                  !.x.alias_map = IF isout /\ bit # wirebit THEN Put(al1, wirebit, bit) ELSE al1,
                  !.x.input_bits = IF isin THEN @ \cup {wirebit} ELSE @,
                  !.x.output_bits = IF isout THEN @ \cup {wirebit} ELSE @]

WireStep(s, wirebit) ==
    LET wire == s.m.wires[wirebit]
        bit == sigmap(s.l.sigmap, wirebit)
        isin == wire.port_input \/ wire.keep
        isout == wire.port_output \/ wire.keep
        und == IF IsWire(bit) THEN s.l.undriven_bits \cup {bit} ELSE s.l.undriven_bits
        unu == IF IsWire(bit) THEN s.l.unused_bits \cup {bit} ELSE s.l.unused_bits
        kp == IF wire.keep THEN s.l.keep_bits \cup {bit} ELSE s.l.keep_bits
        al1 == IF isin /\ bit # wirebit THEN Put(s.x.alias_map, bit, wirebit)
               ELSE s.x.alias_map
        al2 == IF isout /\ bit # Sx /\ bit # wirebit THEN Put(al1, wirebit, bit) ELSE al1
    IN  [s EXCEPT !.l.undriven_bits = und, !.l.unused_bits = unu, !.l.keep_bits = kp,
                  !.x.alias_map = al2,
                  !.x.input_bits = IF isin THEN @ \cup {wirebit} ELSE @,
                  !.x.output_bits = IF isout /\ bit # Sx THEN @ \cup {wirebit} ELSE @]

RECURSIVE WireLoop(_, _)
WireLoop(s, ws) == IF ws = <<>> THEN s ELSE WireLoop(WireStep(s, Head(ws)), Tail(ws))

\* Lines 165-212: the loop over the wires, then the two loops that clear
\* undriven_bits and unused_bits.
ClassifyWires(s) ==
    LET t == WireLoop(s, SortSet(DOMAIN s.m.wires))
    IN  [t EXCEPT !.l.undriven_bits =
                      @ \ {sigmap(t.l.sigmap, b) : b \in t.x.input_bits},
                  !.l.unused_bits =
                      @ \ {b \in t.x.output_bits : ~t.m.wires[b].port_input}]

\* --------------------------------------------------- constructor: the cells
Sm(s, b) == sigmap(s.l.sigmap, b)

\* Lines 222-235: a $_NOT_ cell.
NotCell(s, i, holes) ==
    LET c == s.m.cells[i]
        A == Sm(s, c.a)
        Y == Sm(s, c.y)
        t == [s EXCEPT !.l.unused_bits = @ \ {A}, !.l.undriven_bits = @ \ {Y},
                       !.x.not_map = Put(@, Y, A)]
    IN  IF holes THEN t
        ELSE [t EXCEPT !.l.nodes = @ \cup {i},
                       !.l.bit_users = AddTo(@, A, i),
                       !.l.bit_drivers = AddTo(@, Y, i)]

\* Lines 237-253: a $_AND_ cell.
AndCell(s, i, holes) ==
    LET c == s.m.cells[i]
        A == Sm(s, c.a)
        B == Sm(s, c.b)
        Y == Sm(s, c.y)
        t == [s EXCEPT !.l.unused_bits = @ \ {A, B}, !.l.undriven_bits = @ \ {Y},
                       !.x.and_map = Put(@, Y, <<A, B>>)]
    IN  IF holes THEN t
        ELSE [t EXCEPT !.l.nodes = @ \cup {i},
                       !.l.bit_users = AddTo(AddTo(@, A, i), B, i),
                       !.l.bit_drivers = AddTo(@, Y, i)]

\* Lines 257-267: a $__ABC9_FF_ cell; the insertion must be a new entry.
FfCell(s, i) ==
    LET c == s.m.cells[i]
        D == Sm(s, c.a)
        Q == Sm(s, c.y)
    IN  IF D \in FfKeys(s.x) THEN Fail(s, "r.second")
        ELSE [s EXCEPT !.l.unused_bits = @ \ {D}, !.l.undriven_bits = @ \ {Q},
                       !.x.alias_map = Put(@, Q, D),
                       !.x.ff_bits = Append(@, [bit |-> D, cls |-> 0])]

\* Lines 275-287: one connection of a box cell; an inout port is skipped.
BoxConn(s, i, port) ==
    LET b == Conn(s.m.cells[i], port.name)
        bit == Sm(s, b)
    IN  IF b = NONE THEN s
        ELSE IF port.port_input /\ port.port_output THEN s
        ELSE IF port.port_input THEN [s EXCEPT !.l.bit_users = AddTo(@, bit, i)]
        ELSE [s EXCEPT !.l.bit_drivers = AddTo(@, bit, i)]

RECURSIVE BoxConns(_, _, _)
BoxConns(s, i, ports) ==
    IF ports = <<>> THEN s ELSE BoxConns(BoxConn(s, i, Head(ports)), i, Tail(ports))

\* Lines 269-292: a cell whose module has the abc9_box_id attribute.
BoxCell(s, i) ==
    LET c == s.m.cells[i]
        t == BoxConns([s EXCEPT !.l.abc9_box_seen = TRUE, !.l.nodes = @ \cup {i}],
                      i, BoxPorts(c.type))
    IN  IF c.type = "FBOX" THEN [t EXCEPT !.l.flop_boxes = Append(@, i)] ELSE t

\* Lines 303-318: a bit of a connection that is an input of the cell.
OtherInput(s, b, cell_known) ==
    IF ~IsWire(b) THEN s
    ELSE IF s.m.wires[b].port_output /\ cell_known THEN s
    ELSE LET I == Sm(s, b)
         IN  [s EXCEPT !.x.alias_map = IF I # b THEN Put(@, b, I) ELSE @,
                       !.x.output_bits = @ \cup {b},
                       !.l.unused_bits = @ \ {b},
                       !.l.keep_bits = IF cell_known THEN @ ELSE @ \cup {b}]

\* Lines 319-342: a bit of a connection that is an output of the cell.
OtherOutput(s, b) ==
    IF ~IsWire(b) THEN s
    ELSE LET O == Sm(s, b)
         IN  [s EXCEPT !.x.input_bits = @ \cup {b},
                       !.x.alias_map = IF O # b THEN Put(@, O, b) ELSE @,
                       !.l.undriven_bits = @ \ {O}]

\* Lines 295-343: one connection of any other cell.  A known cell reads a
\* and b and drives y; every connection of an unknown cell is both.
OtherConn(s, b, is_input, is_output, cell_known) ==
    IF b = NONE \/ ~IsWire(b) THEN s
    ELSE LET t == IF is_input THEN OtherInput(s, b, cell_known) ELSE s
         IN  IF is_output THEN OtherOutput(t, b) ELSE t

OtherCell(s, i) ==
    LET c == s.m.cells[i]
        known == c.type = "KNOWN"
        t1 == OtherConn(s, c.a, TRUE, ~known, known)
        t2 == OtherConn(t1, c.b, TRUE, ~known, known)
    IN  OtherConn(t2, c.y, ~known, TRUE, known)

\* One iteration of the loop over module->selected_cells().
CellStep(s, i, holes) ==
    LET type == s.m.cells[i].type
    IN  IF type = "NOT" THEN NotCell(s, i, holes)
        ELSE IF type = "AND" THEN AndCell(s, i, holes)
        ELSE IF holes THEN Fail(s, "!holes_mode")
        ELSE IF type = "FF" THEN FfCell(s, i)
        ELSE IF type \in BoxTypes THEN BoxCell(s, i)
        ELSE OtherCell(s, i)

RECURSIVE CellLoop(_, _, _)
CellLoop(s, i, holes) ==
    IF i > Len(s.m.cells) \/ s.err # "" THEN s
    ELSE CellLoop(CellStep(s, i, holes), i + 1, holes)

\* Lines 221-346.
ClassifyCells(s, holes) == CellLoop(s, 1, holes)

\* ------------------------------------------- constructor: the flop boxes
\* Lines 354-373: the first connection of the cell that is one bit of
\* ff_bits names the port; "" (the empty IdString) when there is none.
RECURSIVE FirstFfPort(_, _, _)
FirstFfPort(s, c, ports) ==
    IF ports = <<>> THEN ""
    ELSE IF Conn(c, Head(ports).name) # NONE /\ Conn(c, Head(ports).name) \in FfKeys(s.x)
         THEN Head(ports).name
         ELSE FirstFfPort(s, c, Tail(ports))

SetClass(ffs, d, v) ==
    [k \in 1..Len(ffs) |-> IF ffs[k].bit = d THEN [ffs[k] EXCEPT !.cls = v] ELSE ffs[k]]

\* The entry of flop_q for the type of the box: "unset" before the first box
\* of the type, then the port found for that first box.
FlopPort(s, i, flop_q) ==
    IF flop_q # "unset" THEN flop_q
    ELSE FirstFfPort(s, s.m.cells[i], BoxPorts(s.m.cells[i].type))

\* Lines 350-386: one flop box.  d is a default SigBit (constant 0) when the
\* first box of the type has no connection to a register.
FlopBox(s, i, flop_q) ==
    LET c == s.m.cells[i]
        port == FlopPort(s, i, flop_q)
        d == IF port = "" THEN (IF flop_q = "unset" THEN S0 ELSE NONE)
             ELSE Conn(c, port)
    IN  IF flop_q = "unset" /\ port # "" /\ d # Sm(s, d) THEN Fail(s, "d == sigmap(d)")
        ELSE IF d = NONE THEN Fail(s, "out_of_range")            \* getPort
        ELSE IF c.cls = NONE THEN Fail(s, "it != cell->attributes.end()")
        ELSE IF d \notin FfKeys(s.x) THEN Fail(s, "out_of_range")  \* ff_bits.at
        ELSE [s EXCEPT !.x.ff_bits = SetClass(@, d, c.cls),
                       !.m.cells[i].cls = NONE]

RECURSIVE FlopLoop(_, _, _)
FlopLoop(s, boxes, flop_q) ==
    IF boxes = <<>> \/ s.err # "" THEN s
    ELSE FlopLoop(FlopBox(s, Head(boxes), flop_q), Tail(boxes),
                  FlopPort(s, Head(boxes), flop_q))

FlopBoxes(s) == FlopLoop(s, s.l.flop_boxes, "unset")

\* ------------------------------------------------ constructor: the ordering
\* The edges with driver and user exchanged.
EdgesTurned(l) ==
    UNION { l.bit_users[bit] \X l.bit_drivers[bit] :
            bit \in (DOMAIN l.bit_users) \cap (DOMAIN l.bit_drivers) }

\* Lines 388-392: an edge from every driver of a bit to every user of it.
Edges(l) ==
    UNION { l.bit_drivers[bit] \X l.bit_users[bit] :
            bit \in (DOMAIN l.bit_users) \cap (DOMAIN l.bit_drivers) }

\* TopoSort::sort: the nodes in name order, each after the nodes it has an
\* edge from; a node met again while it is being visited is a loop.
Deps(edges, n) == {e[1] : e \in {f \in edges : f[2] = n}}

RECURSIVE SortWorker(_, _, _)
RECURSIVE SortDeps(_, _, _)
SortWorker(edges, n, ts) ==
    IF n \in ts.active THEN [ts EXCEPT !.found_loops = TRUE]
    ELSE IF n \in ts.marked THEN ts
    ELSE LET t1 == SortDeps(edges, SortSet(Deps(edges, n)),
                            [ts EXCEPT !.active = @ \cup {n}])
         IN  [t1 EXCEPT !.active = @ \ {n}, !.marked = @ \cup {n},
                        !.sorted = Append(@, n)]

SortDeps(edges, deps, ts) ==
    IF deps = <<>> THEN ts
    ELSE SortDeps(edges, Tail(deps), SortWorker(edges, Head(deps), ts))

TopoSort(nodes, edges) ==
    SortDeps(edges, SortSet(nodes),
             [active |-> {}, marked |-> {}, sorted |-> <<>>, found_loops |-> FALSE])

\* Lines 388-409: the edges, the sort and the assertion on its result.
OrderCells(s) ==
    LET edges == Edges(s.l)
        ts == TopoSort(s.l.nodes, edges)
        t == [s EXCEPT !.l.edges = edges, !.l.sorted = ts.sorted]
    IN  IF ts.found_loops THEN Fail(t, "no_loops") ELSE t

\* ------------------------------------------------- constructor: the padding
PadWire(i, port) == PadBase + 3 * i + (IF port = "a" THEN 0 ELSE IF port = "b" THEN 1 ELSE 2)

\* Lines 441-454 and 490-503: a bit handed into the box becomes a co_bit.
BoxInputBit(s, i, port, rhs) ==
    LET I == Sm(s, rhs)
        b == IF rhs = Sx THEN S0 ELSE rhs
    IN  [s EXCEPT !.x.alias_map = IF rhs # Sx /\ I # rhs
                                  THEN Put(@, rhs, IF I = Sx THEN S0 ELSE I) ELSE @,
                  !.x.co_bits = Append(@, [bit |-> b, cell |-> i, port |-> port]),
                  !.l.unused_bits = @ \ {b}]

\* Lines 429-455: an input port; a missing connection is constant 0.
PadInput(s, i, port) ==
    LET cur == Conn(s.m.cells[i], port)
        rhs == IF cur = NONE THEN S0 ELSE cur
        t == [s EXCEPT !.m.cells[i] = SetConn(@, port, rhs)]
    IN  BoxInputBit(t, i, port, rhs)

\* Lines 456-481: an output port; a missing connection is a new wire.
PadOutput(s, i, port) ==
    LET cur == Conn(s.m.cells[i], port)
        b == IF cur = NONE THEN PadWire(i, port) ELSE cur
        t == IF cur # NONE THEN s
             ELSE [s EXCEPT !.m.cells[i] = SetConn(@, port, b),
                            !.m.wires = Put(@, b, PlainWire)]
        O == Sm(t, b)
    IN  [t EXCEPT !.x.ci_bits = Append(@, [bit |-> b, cell |-> i, port |-> port]),
                  !.x.alias_map = IF O # b THEN Put(@, O, b) ELSE @,
                  !.l.undriven_bits = @ \ {O},
                  !.x.input_bits = @ \ {b}]

RECURSIVE PadPorts(_, _, _)
PadPorts(s, i, ports) ==
    IF ports = <<>> THEN s
    ELSE LET p == Head(ports)
             t1 == IF p.port_input THEN PadInput(s, i, p.name) ELSE s
             t2 == IF p.port_output THEN PadOutput(t1, i, p.name) ELSE t1
         IN  PadPorts(t2, i, Tail(ports))

\* Lines 411-507: one cell of toposort.sorted.
PadBox(s, i) ==
    LET c == s.m.cells[i]
        t == PadPorts(s, i, BoxPorts(c.type))
    IN  IF c.type \notin BoxTypes THEN s
        ELSE IF c.type # "FBOX" THEN [t EXCEPT !.x.box_list = Append(@, i)]
        ELSE IF c.currQ = NONE THEN Fail(t, "log_error")
        ELSE [BoxInputBit(t, i, "$currQ", c.currQ) EXCEPT !.x.box_list = Append(@, i)]

RECURSIVE PadLoop(_, _)
PadLoop(s, cs) ==
    IF cs = <<>> \/ s.err # "" THEN s ELSE PadLoop(PadBox(s, Head(cs)), Tail(cs))

\* Lines 348-510: all that is done when a box was seen.
Boxes(s) ==
    LET t1 == FlopBoxes(s)
        t2 == IF t1.err # "" THEN t1 ELSE OrderCells(t1)
    IN  IF t2.err # "" THEN t2 ELSE PadLoop(t2, t2.l.sorted)

\* ------------------------------------------------ constructor: the splitting
InoutWire(bit) == bit + InoutBase - WireBase

\* SplitBit that leaves the bit in output_bits.
SplitBit_kept(s, bit) ==
    LET wire == s.m.wires[bit]
        new_bit == InoutWire(bit)
    IN  IF ~((wire.port_input /\ wire.port_output /\ bit \notin s.l.undriven_bits)
             \/ bit \in s.l.keep_bits)
        THEN s
        ELSE [s EXCEPT
                !.m.wires = Put(@, new_bit, PlainWire),
                !.m.connections = @ \cup {<<new_bit, bit>>},
                !.x.alias_map = Put(@, new_bit, bit),
                !.x.output_bits = @ \cup {new_bit}]

\* SplitBit that binds the new wire to the bit itself, whatever defines it.
SplitBit_aliased(s, bit) ==
    LET wire == s.m.wires[bit]
        new_bit == InoutWire(bit)
    IN  IF ~((wire.port_input /\ wire.port_output /\ bit \notin s.l.undriven_bits)
             \/ bit \in s.l.keep_bits)
        THEN s
        ELSE [s EXCEPT
                !.m.wires = Put(@, new_bit, PlainWire),
                !.m.connections = @ \cup {<<new_bit, bit>>},
                !.x.alias_map = Put(@, new_bit, bit),
                !.x.output_bits = (@ \ {bit}) \cup {new_bit}]

\* Lines 512-544: one bit of input_bits that is in output_bits as well.
SplitBit(s, bit) ==
    LET wire == s.m.wires[bit]
        new_bit == InoutWire(bit)
        x == s.x
    IN  IF ~((wire.port_input /\ wire.port_output /\ bit \notin s.l.undriven_bits)
             \/ bit \in s.l.keep_bits)
        THEN s
        ELSE [s EXCEPT
                !.m.wires = Put(@, new_bit, PlainWire),
                !.m.connections = @ \cup {<<new_bit, bit>>},
                !.x.not_map = IF Has(x.not_map, bit) THEN Put(@, new_bit, x.not_map[bit])
                              ELSE @,
                !.x.and_map = IF ~Has(x.not_map, bit) /\ Has(x.and_map, bit)
                              THEN Put(@, new_bit, x.and_map[bit]) ELSE @,
                !.x.alias_map = IF Has(x.not_map, bit) \/ Has(x.and_map, bit) THEN @
                                ELSE IF Has(x.alias_map, bit)
                                     THEN Put(@, new_bit, x.alias_map[bit])
                                     ELSE Put(@, new_bit, bit),
                !.x.output_bits = (@ \ {bit}) \cup {new_bit}]

RECURSIVE SplitLoop(_, _)
SplitLoop(s, bits) ==
    IF bits = <<>> THEN s
    ELSE SplitLoop(IF Head(bits) \in s.x.output_bits THEN SplitBit(s, Head(bits)) ELSE s,
                   Tail(bits))

SplitInout(s) == SplitLoop(s, SortSet(s.x.input_bits))

\* Undriven that leaves the unused bits among the undriven ones.
Undriven_all(s, holes) ==
    [s EXCEPT !.x.input_bits = IF s.l.undriven_bits # {} /\ ~holes
                               THEN @ \cup s.l.undriven_bits ELSE @]

\* Lines 546-559: the undriven bits that are used become inputs.
Undriven(s, holes) ==
    LET und == s.l.undriven_bits \ s.l.unused_bits
    IN  [s EXCEPT !.l.undriven_bits = und,
                  !.x.input_bits = IF und # {} /\ ~holes THEN @ \cup und ELSE @]

\* Lines 561-573: the order input_bits and output_bits are iterated in after
\* the sort: by port_id in holes mode, else by SigBit::operator<.
RECURSIVE SortByPortId(_, _)
SortByPortId(wires, S) ==
    IF S = {} THEN <<>>
    ELSE LET b == CHOOSE y \in S : \A z \in S :
                     \/ wires[y].port_id < wires[z].port_id
                     \/ wires[y].port_id = wires[z].port_id /\ y <= z
         IN  <<b>> \o SortByPortId(wires, S \ {b})

Sorted(s, holes, S) ==
    IF holes /\ S \subseteq DOMAIN s.m.wires THEN SortByPortId(s.m.wires, S) ELSE SortSet(S)

\* ----------------------------------------------- constructor: the numbering
\* Lines 581-585: one primary input.
NumberInput(s, bit) ==
    IF Has(s.x.aig_map, bit) THEN Fail(s, "!aig_map.count(bit)")
    ELSE [s EXCEPT !.x.aig_m = @ + 1, !.x.aig_i = @ + 1,
                   !.x.aig_map = Put(@, bit, 2 * (s.x.aig_m + 1))]

\* NumberCi that gives no variable to a bit that has a literal already.
NumberCi_skipped(s, bit) ==
    IF Has(s.x.aig_map, bit) THEN [s EXCEPT !.l.ff_aig_map = Put(@, bit, s.x.aig_map[bit])]
    ELSE [s EXCEPT !.x.aig_m = @ + 1, !.x.aig_i = @ + 1,
                   !.x.aig_map = Put(@, bit, 2 * (s.x.aig_m + 1))]

\* Lines 595-601: one box output; a bit that has a literal already keeps it
\* and the new one goes to ff_aig_map.
NumberCi(s, bit) ==
    LET lit == 2 * (s.x.aig_m + 1)
    IN  [s EXCEPT !.x.aig_m = @ + 1, !.x.aig_i = @ + 1,
                  !.x.aig_map = IF Has(@, bit) THEN @ ELSE Put(@, bit, lit),
                  !.l.ff_aig_map = IF Has(s.x.aig_map, bit) THEN Put(@, bit, lit) ELSE @]

RECURSIVE NumberInputs(_, _)
NumberInputs(s, bits) ==
    IF bits = <<>> \/ s.err # "" THEN s
    ELSE NumberInputs(NumberInput(s, Head(bits)), Tail(bits))

RECURSIVE NumberCis(_, _)
NumberCis(s, cis) ==
    IF cis = <<>> THEN s ELSE NumberCis(NumberCi(s, Head(cis).bit), Tail(cis))

\* Lines 578-601: the constants, the primary inputs, the registers, the
\* outputs of the boxes.
Numbering(s, holes) ==
    LET t0 == [s EXCEPT !.x.aig_map = Put(Put(@, S0, 0), S1, 1)]
        t1 == NumberInputs(t0, Sorted(t0, holes, t0.x.input_bits))
        t2 == NumberInputs(t1, [k \in 1..Len(t1.x.ff_bits) |-> t1.x.ff_bits[k].bit])
    IN  IF t2.err # "" THEN t2 ELSE NumberCis(t2, t2.x.ci_bits)

\* ------------------------------------------------------ mkgate and bit2aig
\* mkgate without the count of the gates.
mkgate_uncounted(x, a0, a1) ==
    [x |-> [x EXCEPT !.aig_m = @ + 1,
                     !.aig_gates = Append(@, IF a0 > a1 THEN <<a0, a1>> ELSE <<a1, a0>>)],
     a |-> 2 * (x.aig_m + 1)]

\* mkgate that stores the operands as they come.
mkgate_unordered(x, a0, a1) ==
    [x |-> [x EXCEPT !.aig_m = @ + 1, !.aig_a = @ + 1,
                     !.aig_gates = Append(@, <<a0, a1>>)],
     a |-> 2 * (x.aig_m + 1)]

\* mkgate that hands out the variable of a gate with the same operands
\* again instead of a new one.
mkgate_shared(x, a0, a1) ==
    LET g == IF a0 > a1 THEN <<a0, a1>> ELSE <<a1, a0>>
        same == {i \in 1..Len(x.aig_gates) : x.aig_gates[i] = g}
    IN  IF same # {}
        THEN [x |-> x, a |-> 2 * (x.aig_i + x.aig_l + MinOf(same))]
        ELSE [x |-> [x EXCEPT !.aig_m = @ + 1, !.aig_a = @ + 1,
                              !.aig_gates = Append(@, g)],
              a |-> 2 * (x.aig_m + 1)]

\* Lines 102-107.  The result is the writer and the literal returned.
mkgate(x, a0, a1) ==
    [x |-> [x EXCEPT !.aig_m = @ + 1, !.aig_a = @ + 1,
                     !.aig_gates = Append(@, IF a0 > a1 THEN <<a0, a1>> ELSE <<a1, a0>>)],
     a |-> 2 * (x.aig_m + 1)]

Xor1(a) == IF a % 2 = 0 THEN a + 1 ELSE a - 1

Visit(x, bit) ==
    [x EXCEPT !.visits = Put(@, bit, IF Has(@, bit) THEN @[bit] + 1 ELSE 1)]

\* bit2aig (lines 109-142) as the machine that runs it: k.stack holds one
\* frame per call that has not returned, the innermost last; k.a is the
\* value the last call returned.  A frame is at "enter" (line 111), or waits
\* for the call of line 122 ("not"), 126 ("and0"), 127 ("and1") or 131
\* ("alias").
Frame(bit) == [bit |-> bit, at |-> "enter", a0 |-> NONE]

Top(k) == k.stack[Len(k.stack)]

Pop(k) == SubSeq(k.stack, 1, Len(k.stack) - 1)

Call(k, at, bit) ==
    [k EXCEPT !.stack = Append([@ EXCEPT ![Len(@)].at = at], Frame(bit))]

\* Return that does not keep the literal in aig_map.
Return_forgetful(k, a0) ==
    LET bit == Top(k).bit
        a == IF bit = Sx \/ bit = Sz THEN k.x.aig_map[S0] ELSE a0
    IN  IF a < 0 THEN [k EXCEPT !.err = "a >= 0"]
        ELSE [k EXCEPT !.stack = Pop(k), !.a = a]

\* Lines 134-141: the end of a call whose branches left a.
Return(k, a0) ==
    LET bit == Top(k).bit
        a == IF bit = Sx \/ bit = Sz THEN k.x.aig_map[S0] ELSE a0
    IN  IF a < 0 THEN [k EXCEPT !.err = "a >= 0"]
        ELSE [k EXCEPT !.x.aig_map = Put(@, bit, a), !.stack = Pop(k), !.a = a]

\* Lines 111-132 for a call that starts.  A bit that has no literal yet and
\* belongs to a call that has not returned is reached again by the same
\* calls: the recursion does not end.
Enter(k) ==
    LET bit == Top(k).bit
        x == k.x
        below == {k.stack[j].bit : j \in 1..(Len(k.stack) - 1)}
        v == [k EXCEPT !.x = Visit(x, bit)]
    IN  IF Has(x.aig_map, bit)
        THEN IF x.aig_map[bit] < 0 THEN [k EXCEPT !.err = "it->second >= 0"]
             ELSE [k EXCEPT !.stack = Pop(k), !.a = x.aig_map[bit]]
        ELSE IF bit \in below THEN [k EXCEPT !.err = "overflow"]
        ELSE IF Has(x.not_map, bit) THEN Call(v, "not", x.not_map[bit])
        ELSE IF Has(x.and_map, bit) THEN Call(v, "and0", x.and_map[bit][1])
        ELSE IF Has(x.alias_map, bit) THEN Call(v, "alias", x.alias_map[bit])
        ELSE Return(v, NONE)

\* One step of the innermost call.
Bit2AigStep(k) ==
    LET f == Top(k)
        g == mkgate(k.x, f.a0, k.a)
    IN  IF f.at = "enter" THEN Enter(k)
        ELSE IF f.at = "not" THEN Return(k, Xor1(k.a))
        ELSE IF f.at = "and0"
        THEN Call([k EXCEPT !.stack[Len(k.stack)].a0 = k.a], "and1", k.x.and_map[f.bit][2])
        ELSE IF f.at = "and1" THEN Return([k EXCEPT !.x = g.x], g.a)
        ELSE Return(k, k.a)

RECURSIVE Bit2AigRun(_)
Bit2AigRun(k) ==
    IF k.stack = <<>> \/ k.err # "" THEN k ELSE Bit2AigRun(Bit2AigStep(k))

\* bit2aig(bit) on the writer x: the writer it leaves, the literal, and why
\* it stopped if it did.
bit2aig(x, bit) ==
    LET k == Bit2AigRun([x |-> x, stack |-> <<Frame(bit)>>, a |-> NONE, err |-> ""])
    IN  [x |-> k.x, a |-> k.a, err |-> k.err]

\* ------------------------------------------------ constructor: the outputs
\* One call of bit2aig whose result is appended to aig_outputs.
PushOutput(s, bit) ==
    LET r == bit2aig(s.x, bit)
    IN  IF r.err # "" THEN [s EXCEPT !.x = r.x, !.err = r.err]
        ELSE [s EXCEPT !.x = [r.x EXCEPT !.aig_outputs = Append(@, r.a)]]

\* Lines 603-607 and 614-617: ordered_outputs[bit] = aig_o++, then the push.
OrderedOutput(s, bit) ==
    PushOutput([s EXCEPT !.x.ordered_outputs = Put(@, bit, s.x.aig_o),
                         !.x.aig_o = @ + 1], bit)

RECURSIVE OutputLoop(_, _)
OutputLoop(s, bits) ==
    IF bits = <<>> \/ s.err # "" THEN s
    ELSE OutputLoop(OrderedOutput(s, Head(bits)), Tail(bits))

\* DummyOutput that raises omode and adds no output.
DummyOutput_flag(s) ==
    IF s.x.output_bits = {} THEN [s EXCEPT !.x.omode = TRUE] ELSE s

\* Lines 609-612: the dummy output of a design without primary outputs.
DummyOutput(s) ==
    IF s.x.output_bits = {}
    THEN [s EXCEPT !.x.output_bits = {S0}, !.x.omode = TRUE]
    ELSE s

\* FfOutput that takes the literal of the register from aig_map.
FfOutput_state(s, bit) ==
    IF ~Has(s.x.aig_map, bit) THEN Fail([s EXCEPT !.x.aig_o = @ + 1], "out_of_range")
    ELSE [s EXCEPT !.x.aig_o = @ + 1,
                   !.x.aig_outputs = Append(@, s.x.aig_map[bit])]

\* FfOutput without the count of the outputs.
FfOutput_uncounted(s, bit) ==
    IF ~Has(s.l.ff_aig_map, bit) THEN Fail(s, "out_of_range")
    ELSE [s EXCEPT !.x.aig_outputs = Append(@, s.l.ff_aig_map[bit])]

\* Lines 619-623: one register; its literal is read from ff_aig_map.
FfOutput(s, bit) ==
    IF ~Has(s.l.ff_aig_map, bit) THEN Fail([s EXCEPT !.x.aig_o = @ + 1], "out_of_range")
    ELSE [s EXCEPT !.x.aig_o = @ + 1,
                   !.x.aig_outputs = Append(@, s.l.ff_aig_map[bit])]

RECURSIVE FfOutputs(_, _)
FfOutputs(s, k) ==
    IF k > Len(s.x.ff_bits) \/ s.err # "" THEN s
    ELSE FfOutputs(FfOutput(s, s.x.ff_bits[k].bit), k + 1)

\* Lines 625-629.
LastDummy(s) ==
    IF s.x.output_bits = {}
    THEN [s EXCEPT !.x.aig_o = @ + 1, !.x.aig_outputs = Append(@, 0), !.x.omode = TRUE]
    ELSE s

\* Lines 603-629.
Outputs(s, holes) ==
    LET t1 == OutputLoop(s, [k \in 1..Len(s.x.co_bits) |-> s.x.co_bits[k].bit])
        t2 == DummyOutput(t1)
        t3 == IF t1.err # "" THEN t1
              ELSE OutputLoop(t2, Sorted(t2, holes, t2.x.output_bits))
        t4 == IF t3.err # "" THEN t3 ELSE FfOutputs(t3, 1)
    IN  IF t4.err # "" THEN t4 ELSE LastDummy(t4)

\* aiger_encode that shifts x by a whole byte after each byte it puts.
RECURSIVE aiger_encode_wide(_)
aiger_encode_wide(x) ==
    IF x \div 128 # 0
    THEN <<(x % 128) + 128>> \o aiger_encode_wide(x \div 256)
    ELSE <<x>>

\* ---------------------------------------------------------- aiger_encode
\* Lines 64-74: the bytes put for x (x & ~0x7f is x with its low 7 bits
\* cleared, x >> 7 the quotient by 128).  The caller checks x >= 0.
RECURSIVE aiger_encode(_)
aiger_encode(x) ==
    IF x \div 128 # 0
    THEN <<(x % 128) + 128>> \o aiger_encode(x \div 128)
    ELSE <<x>>

\* write_buffer (lines 692-695): the four bytes of a 32-bit integer, the
\* most significant first.
write_buffer(i32) ==
    << (i32 \div 16777216) % 256, (i32 \div 65536) % 256, (i32 \div 256) % 256, i32 % 256 >>

\* ------------------------------------------------------------ write_aiger
\* Lines 678-686: the gates in binary mode; a negative delta stops the pass.
RECURSIVE EncodeGates(_, _, _)
EncodeGates(x, i, bytes) ==
    IF i >= x.aig_a THEN [bytes |-> bytes, err |-> ""]
    ELSE LET lhs == 2 * (x.aig_i + x.aig_l + i) + 2
             rhs0 == x.aig_gates[i + 1][1]
             rhs1 == x.aig_gates[i + 1][2]
             delta0 == lhs - rhs0
             delta1 == rhs0 - rhs1
         IN  IF delta0 < 0 \/ delta1 < 0 THEN [bytes |-> bytes, err |-> "x >= 0"]
             ELSE EncodeGates(x, i + 1,
                              bytes \o aiger_encode(delta0) \o aiger_encode(delta1))

\* Line 662: the gates in ASCII mode.
AsciiGates(x) ==
    [i \in 1..x.aig_a |->
        <<2 * (x.aig_i + x.aig_l + (i - 1)) + 2, x.aig_gates[i][1], x.aig_gates[i][2]>>]

\* The abc9_box_id attribute of the module of the box.
BoxId(type) == IF type = "BOX" THEN 1 ELSE IF type = "IOBOX" THEN 2 ELSE 3

\* Lines 730-813: the four numbers the 'h' section holds for a box.
BoxHeader(m, i, box_count) ==
    LET ports == BoxPorts(m.cells[i].type)
        ins == Cardinality({k \in 1..Len(ports) : ports[k].port_input})
        outs == Cardinality({k \in 1..Len(ports) : ports[k].port_output})
    IN  << IF m.cells[i].type = "FBOX" THEN ins + 1 ELSE ins, outs,
           BoxId(m.cells[i].type), box_count >>

RECURSIVE BoxHeaders(_, _, _)
BoxHeaders(m, boxes, k) ==
    IF k > Len(boxes) THEN <<>>
    ELSE BoxHeader(m, boxes[k], k - 1) \o BoxHeaders(m, boxes, k + 1)

\* The 's' buffer with one byte for a register.
RECURSIVE SBuffer_bytes(_, _, _)
SBuffer_bytes(m, ffs, k) ==
    IF k > Len(ffs) THEN <<>>
    ELSE <<IF m.wires[ffs[k].bit].init = S1 THEN 1 ELSE 0>> \o SBuffer_bytes(m, ffs, k + 1)

\* Lines 833-847: the 's' buffer.
RECURSIVE SBuffer(_, _, _)
SBuffer(m, ffs, k) ==
    IF k > Len(ffs) THEN <<>>
    ELSE write_buffer(IF m.wires[ffs[k].bit].init = S1 THEN 1 ELSE 0) \o SBuffer(m, ffs, k + 1)

\* Lines 632-952, without the nested writer of the holes module.
write_aiger(s, ascii_mode) ==
    LET x == s.x
        bin == IF ascii_mode THEN [bytes |-> <<>>, err |-> ""] ELSE EncodeGates(x, 0, <<>>)
        ext == x.box_list # <<>> \/ x.ff_bits # <<>>
        h == <<1,
               Cardinality(x.input_bits) + Len(x.ff_bits) + Len(x.ci_bits),
               Cardinality(x.output_bits) + Len(x.ff_bits) + Len(x.co_bits),
               Cardinality(x.input_bits) + Len(x.ff_bits),
               Cardinality(x.output_bits) + Len(x.ff_bits),
               Len(x.box_list)>>
        f == [ascii |-> ascii_mode,
              header |-> <<x.aig_m, x.aig_i, x.aig_l, x.aig_o, x.aig_a>>,
              inputs |-> IF ascii_mode THEN [i \in 1..x.aig_i |-> 2 * (i - 1) + 2] ELSE <<>>,
              outputs |-> [i \in 1..x.aig_o |-> x.aig_outputs[i]],
              gates |-> IF ascii_mode THEN AsciiGates(x) ELSE <<>>,
              bytes |-> bin.bytes,
              h |-> IF ext THEN h \o BoxHeaders(s.m, x.box_list, 1) ELSE h,
              r |-> IF ext
                    THEN <<Len(x.ff_bits)>> \o [k \in 1..Len(x.ff_bits) |-> x.ff_bits[k].cls]
                    ELSE <<>>,
              s |-> IF ext THEN write_buffer(Len(x.ff_bits)) \o SBuffer(s.m, x.ff_bits, 1)
                    ELSE <<>>]
    IN  IF x.aig_m # x.aig_i + x.aig_l + x.aig_a
        THEN Fail(s, "aig_m == aig_i + aig_l + aig_a")
        ELSE IF x.aig_o # Len(x.aig_outputs) THEN Fail(s, "aig_obcjf == GetSize(aig_outputs)")
        ELSE IF bin.err # "" THEN Fail(s, bin.err)
        ELSE IF x.output_bits = {} THEN Fail(s, "!output_bits.empty()")
        ELSE IF ext /\ \E k \in 1..Len(x.ff_bits) : x.ff_bits[k].cls <= 0
             THEN Fail(s, "i.second > 0")
        ELSE [s EXCEPT !.f = f]

\* -------------------------------------------------------------- write_map
\* A dict<int, string>: the lines added under a key, in the order added.
AddLine(lines, key, line) ==
    Put(lines, key, (IF Has(lines, key) THEN lines[key] ELSE <<>>) \o <<line>>)

RECURSIVE Flatten(_, _)
Flatten(lines, keys) ==
    IF keys = <<>> THEN <<>> ELSE lines[Head(keys)] \o Flatten(lines, Tail(keys))

\* Lines 962-996: one wire of the module.
MapWire(s, acc, b) ==
    LET x == s.x
        a == x.aig_map[b]
        o == x.ordered_outputs[b]
        a1 == IF b \in x.input_bits
              THEN [acc EXCEPT !.input_lines =
                       AddLine(@, a, [kind |-> "input", idx |-> (a \div 2) - 1, name |-> b])]
              ELSE acc
    IN  IF b \in x.input_bits /\ ~Has(x.aig_map, b)
        THEN [acc EXCEPT !.err = "out_of_range"]
        ELSE IF b \in x.input_bits /\ a % 2 # 0
        THEN [acc EXCEPT !.err = "(a & 1) == 0"]
        ELSE IF b \in x.output_bits /\ ~Has(x.ordered_outputs, b)
        THEN [acc EXCEPT !.err = "out_of_range"]
        ELSE IF b \in x.output_bits
        THEN [a1 EXCEPT !.output_lines =
                 AddLine(@, o, [kind |-> "output", idx |-> o - Len(x.co_bits), name |-> b])]
        ELSE a1

RECURSIVE MapWires(_, _, _)
MapWires(s, acc, ws) ==
    IF ws = <<>> \/ acc.err # "" THEN acc
    ELSE MapWires(s, MapWire(s, acc, Head(ws)), Tail(ws))

DummyLine(idx) == [kind |-> "output", idx |-> idx, name |-> NONE]

\* Lines 954-1027 (verbose_map off).
write_map(s) ==
    LET x == s.x
        acc == MapWires(s, [input_lines |-> EmptyMap, output_lines |-> EmptyMap, err |-> ""],
                        SortSet(DOMAIN s.m.wires))
        output_lines == IF x.omode THEN Put(acc.output_lines, S0, <<DummyLine(0)>>)
                        ELSE acc.output_lines
        boxes == [k \in 1..Len(x.box_list) |->
                     [kind |-> "box", idx |-> k - 1, name |-> x.box_list[k]]]
        last == IF x.omode /\ x.output_bits = {}
                THEN <<DummyLine(Cardinality(DOMAIN output_lines))>> ELSE <<>>
    IN  IF acc.err # "" THEN Fail(s, acc.err)
        ELSE IF Cardinality(DOMAIN acc.input_lines) # Cardinality(x.input_bits)
        THEN Fail(s, "input_lines.size() == input_bits.size()")
        ELSE IF Cardinality(DOMAIN output_lines) # Cardinality(x.output_bits)
        THEN Fail(s, "output_lines.size() == output_bits.size()")
        ELSE [s EXCEPT !.map = Flatten(acc.input_lines, SortSet(DOMAIN acc.input_lines))
                              \o boxes
                              \o Flatten(output_lines, SortSet(DOMAIN output_lines))
                              \o last]

\* ---------------------------------------------------------------- designs
W(k) == WireBase + k

Design(wires, cells, conns, holes) ==
    [m |-> [wires |-> wires, cells |-> cells, connections |-> conns], holes |-> holes]

OutputWire == Wire(FALSE, TRUE, FALSE)
InputWire == Wire(TRUE, FALSE, FALSE)

\* The wires of a module as they can be declared: plain, input, output,
\* inout, or with the keep attribute.
Roles == {PlainWire, InputWire, OutputWire, Wire(TRUE, TRUE, FALSE), Wire(FALSE, FALSE, TRUE)}

\* Logic networks: cell i drives wire W(i) and reads any wire; any set of
\* the wires is declared output.
LogicWires == {W(k) : k \in 0..NumCells}

LogicCell(i) ==
    {Cell("NOT", a, NONE, W(i)) : a \in LogicWires}
    \cup {Cell("AND", ab[1], ab[2], W(i)) : ab \in LogicWires \X LogicWires}
    \cup {Cell("BOX", a, NONE, W(i)) : a \in LogicWires}
    \cup {Cell("IOBOX", NONE, b, W(i)) : b \in LogicWires}

RECURSIVE LogicCells(_)
LogicCells(n) ==
    IF n = 0 THEN {<<>>}
    ELSE {Append(cs, c) : cs \in LogicCells(n - 1), c \in LogicCell(n)}

LogicDesigns ==
    {Design([w \in LogicWires |-> IF w \in pos THEN OutputWire ELSE PlainWire], cs, {}, FALSE) :
        cs \in LogicCells(NumCells), pos \in SUBSET LogicWires}

\* Chains: box Y, k inverters, box X, named in either order; the input of Y
\* is free, or the output of X, or a register fed by the output of X.
Inverters(k) == [i \in 1..k |-> Cell("NOT", W(i), NONE, W(i + 1))]

ChainCells(k, xfirst, close) ==
    LET Y == Cell("BOX", IF close = "open" THEN W(0)
                         ELSE IF close = "wire" THEN W(k + 2) ELSE W(k + 3),
                  NONE, W(1))
        X == Cell("BOX", W(k + 1), NONE, W(k + 2))
        ff == IF close = "ff" THEN <<Cell("FF", W(k + 2), NONE, W(k + 3))>> ELSE <<>>
    IN  (IF xfirst THEN <<X>> \o Inverters(k) \o <<Y>> ELSE <<Y>> \o Inverters(k) \o <<X>>)
        \o ff

ChainDesigns ==
    {Design([w \in {W(j) : j \in 0..(k + 3)} |-> IF w = W(k + 2) THEN OutputWire ELSE PlainWire],
            ChainCells(k, xfirst, close), {}, FALSE) :
        k \in 0..MaxChain, xfirst \in BOOLEAN, close \in {"open", "wire", "ff"}}

\* Ports: three wires of any declaration, W(0) -> cell -> W(1) -> cell -> W(2)
\* with either cell possibly absent, and at most one connection of W(2).
PortCell1 ==
    {<<>>, <<Cell("NOT", W(0), NONE, W(1))>>, <<Cell("AND", W(0), W(0), W(1))>>,
     <<Cell("KNOWN", W(0), NONE, W(1))>>, <<Cell("UNKNOWN", W(0), NONE, W(1))>>}

PortCell2 ==
    {<<>>, <<Cell("NOT", W(1), NONE, W(2))>>, <<Cell("KNOWN", W(1), NONE, W(2))>>}

PortConns == {{}, {<<W(2), W(1)>>}, {<<W(2), Sx>>}, {<<W(2), Sz>>}}

PortDesigns ==
    {Design(ws, c1 \o c2, conns, FALSE) :
        ws \in [{W(0), W(1), W(2)} -> Roles], c1 \in PortCell1, c2 \in PortCell2,
        conns \in PortConns}

\* Registers: a register with D = W(1) and Q = W(2); W(1) is driven by a
\* flop box, a plain box, an inverter or nothing; W(3) is the wire a flop box
\* looks up as "<cell>.$currQ"; an AND gate may read Q.
FlopCell(a, y, currQ, cls) == [Cell("FBOX", a, NONE, y) EXCEPT !.currQ = currQ, !.cls = cls]

RegDriver ==
    {<<FlopCell(a, y, q, cls)>> :
        a \in {W(0), W(2)}, y \in {W(1), NONE}, q \in {W(3), NONE}, cls \in 1..MaxClass}
    \cup {<<Cell("BOX", a, NONE, W(1))>> : a \in {W(0), W(2)}}
    \cup {<<Cell("NOT", W(0), NONE, W(1))>>, <<>>}

RegWires(po, init) ==
    [w \in {W(j) : j \in 0..4} |->
        IF w = W(1) THEN [PlainWire EXCEPT !.init = init]
        ELSE IF w = W(4) /\ po THEN OutputWire
        ELSE PlainWire]

RegDesigns ==
    {Design(RegWires(po, init), drv \o <<Cell("FF", W(1), NONE, W(2))>> \o gate, conns, FALSE) :
        drv \in RegDriver, po \in BOOLEAN, init \in {NONE, S0, S1},
        gate \in {<<>>, <<Cell("AND", W(2), W(0), W(4))>>},
        conns \in {{}, {<<W(3), W(2)>>}}}

\* Two flop boxes of one type, each with its register.
TwoFlopDesigns ==
    {Design([w \in {W(j) : j \in 0..5} |-> IF w = W(5) THEN OutputWire ELSE PlainWire],
            << FlopCell(a1, W(1), W(2), c1), Cell("FF", W(1), NONE, W(2)),
               FlopCell(a2, W(4), W(5), c2), Cell("FF", W(4), NONE, W(5)) >>,
            {}, FALSE) :
        a1 \in {W(0), W(4), W(5)}, a2 \in {W(0), W(1), W(2)},
        c1 \in 1..MaxClass, c2 \in 1..MaxClass}

\* The module of the holes: inverters and AND gates between ports (and, to
\* show what a leftover cell does, possibly one other cell).
HolesCell(i) ==
    {Cell("NOT", a, NONE, W(i)) : a \in {W(0), W(1), W(2)}}
    \cup {Cell("AND", ab[1], ab[2], W(i)) : ab \in {W(0), W(1), W(2)} \X {W(0), W(1), W(2)}}
    \cup {Cell("KNOWN", W(0), NONE, W(i))}

HolesWires(pi, po) ==
    (W(0) :> [Wire(pi, FALSE, FALSE) EXCEPT !.port_id = IF pi THEN 2 ELSE 0])
    @@ (W(1) :> [Wire(FALSE, po, FALSE) EXCEPT !.port_id = IF po THEN 4 ELSE 0])
    @@ (W(2) :> [OutputWire EXCEPT !.port_id = 3])

\* A further input port, declared before the others and named after them.
FirstPort == W(3) :> [InputWire EXCEPT !.port_id = 1]

HolesDesigns ==
    {Design(IF first THEN HolesWires(pi, po) @@ FirstPort ELSE HolesWires(pi, po),
            <<c1, c2>>, {}, TRUE) :
        c1 \in HolesCell(1), c2 \in HolesCell(2), pi \in BOOLEAN, po \in BOOLEAN,
        first \in BOOLEAN}

\* ------------------------------------------------------------------ the pass
NoOutput == [f |-> <<>>, map |-> <<>>]

NoEncoding == [todo |-> <<>>, written |-> <<>>, bytes |-> <<>>]

Start(designs) ==
    \E d \in designs : module = d.m /\ holes_mode = d.holes /\ loc = FreshLocals(d.m)

Init ==
    /\ \/ Start(LogicDesigns)
       \/ Start(ChainDesigns)
       \/ Start(PortDesigns)
       \/ Start(RegDesigns)
       \/ Start(TwoFlopDesigns)
       \/ Start(HolesDesigns)
    /\ pc = "wires"
    /\ err = ""
    /\ xw = FreshWriter
    /\ out = NoOutput
    /\ enc = NoEncoding

\* A phase of the pass takes it to the next position, or stops it.
Phase(t, next) ==
    /\ module' = t.m
    /\ xw' = t.x
    /\ loc' = t.l
    /\ out' = [f |-> t.f, map |-> t.map]
    /\ err' = t.err
    /\ pc' = IF t.err # "" THEN "failed" ELSE next
    /\ UNCHANGED <<holes_mode, enc>>

Now == St(module, xw, loc, out)

DoClassifyWires == pc = "wires" /\ Phase(ClassifyWires(Now), "cells")

DoClassifyCells == pc = "cells" /\ Phase(ClassifyCells(Now, holes_mode), "boxes")

DoBoxes == pc = "boxes" /\ loc.abc9_box_seen /\ Phase(Boxes(Now), "split")

SkipBoxes == pc = "boxes" /\ ~loc.abc9_box_seen /\ Phase(Now, "split")

DoSplitInout == pc = "split" /\ Phase(SplitInout(Now), "undriven")

DoUndriven == pc = "undriven" /\ Phase(Undriven(Now, holes_mode), "number")

DoNumbering == pc = "number" /\ Phase(Numbering(Now, holes_mode), "outputs")

DoOutputs == pc = "outputs" /\ Phase(Outputs(Now, holes_mode), "built")

DoWriteAiger == pc = "built" /\ \E ascii_mode \in BOOLEAN : Phase(write_aiger(Now, ascii_mode), "written")

DoWriteMap == pc = "written" /\ Phase(write_map(Now), "done")

Next ==
    \/ DoClassifyWires
    \/ DoClassifyCells
    \/ DoBoxes
    \/ SkipBoxes
    \/ DoSplitInout
    \/ DoUndriven
    \/ DoNumbering
    \/ DoOutputs
    \/ DoWriteAiger
    \/ DoWriteMap

Spec == Init /\ [][Next]_vars

\* ------------------------------------------------- aiger_encode on its own
\* The integers handed to aiger_encode: the ends of the one- to five-byte
\* ranges of a non-negative int, and one negative value.
EncValues ==
    {-1, 0, 1, 127, 128, 129, 255, 256, 16383, 16384, 2097151, 2097152,
     268435455, 268435456, 2147483647}

RECURSIVE SeqsUpTo(_, _)
SeqsUpTo(S, n) ==
    IF n = 0 THEN {<<>>}
    ELSE SeqsUpTo(S, n - 1) \cup {Append(q, v) : q \in {r \in SeqsUpTo(S, n - 1) : Len(r) = n - 1}, v \in S}

InitEnc ==
    /\ module = [wires |-> EmptyMap, cells |-> <<>>, connections |-> {}]
    /\ holes_mode = FALSE
    /\ loc = FreshLocals(module)
    /\ xw = FreshWriter
    /\ out = NoOutput
    /\ err = ""
    /\ pc = "encode"
    /\ \E todo \in SeqsUpTo(EncValues, MaxEncLen) \ {<<>>} :
          enc = [todo |-> todo, written |-> <<>>, bytes |-> <<>>]

\* One call aiger_encode(f, x) on the stream f = enc.bytes (lines 64-74).
DoEncode ==
    /\ pc = "encode"
    /\ enc.todo # <<>>
    /\ LET x == Head(enc.todo)
       IN  IF x < 0
           THEN /\ err' = "x >= 0"
                /\ pc' = "failed"
                /\ UNCHANGED enc
           ELSE /\ enc' = [todo |-> Tail(enc.todo),
                           written |-> Append(enc.written, x),
                           bytes |-> enc.bytes \o aiger_encode(x)]
                /\ UNCHANGED <<pc, err>>
    /\ UNCHANGED <<module, holes_mode, xw, loc, out>>

SpecEnc == InitEnc /\ [][DoEncode]_vars

\* ============================================================ properties
\* The netlist as the properties speak of it: what each gate or box produces
\* and consumes, read from the cells and the port directions of the design.
\* A port that is input and output at once has no direction: it is counted
\* neither as produced nor as consumed.
Built == pc \in {"built", "written", "done"}

Gates == {i \in 1..Len(module.cells) : module.cells[i].type \in {"NOT", "AND"}}

BoxCells == {i \in 1..Len(module.cells) : module.cells[i].type \in BoxTypes}

PortBits(i, outputs) ==
    LET c == module.cells[i]
        ports == IF c.type \in BoxTypes THEN BoxPorts(c.type)
                 ELSE IF c.type = "NOT"
                 THEN << [name |-> "a", port_input |-> TRUE, port_output |-> FALSE],
                         [name |-> "y", port_input |-> FALSE, port_output |-> TRUE] >>
                 ELSE << [name |-> "a", port_input |-> TRUE, port_output |-> FALSE],
                         [name |-> "b", port_input |-> TRUE, port_output |-> FALSE],
                         [name |-> "y", port_input |-> FALSE, port_output |-> TRUE] >>
        bits == {Conn(c, ports[k].name) :
                    k \in {j \in 1..Len(ports) :
                              /\ ports[j].port_output = outputs
                              /\ ports[j].port_input = ~outputs}}
    IN  {sigmap(loc.sigmap, b) : b \in {d \in bits : d # NONE}} \cap {b \in 0..(PadBase - 1) : IsWire(b)}

Produces(i) == PortBits(i, TRUE)

Consumes(i) == PortBits(i, FALSE)

Feeds(i, j) == Produces(i) \cap Consumes(j) # {}

\* The cells a value leaving cell i reaches through gates and boxes.
RECURSIVE Downstream(_, _)
Downstream(S, through) ==
    LET T == S \cup {j \in Gates \cup BoxCells : \E i \in S \cap through : Feeds(i, j)}
    IN  IF T = S THEN S ELSE Downstream(T, through)

After(i, through) == Downstream({j \in Gates \cup BoxCells : Feeds(i, j)}, through)

Feedback == \E i \in Gates \cup BoxCells : i \in After(i, Gates \cup BoxCells)

\* Box X consumes a bit box Y produces, directly or through gates.
DependsOn(X, Y) == X \in After(Y, Gates)

Position(seq, v) == CHOOSE k \in 1..Len(seq) : seq[k] = v

\* C1 (as stated): a netlist with a feedback loop through gates and boxes
\* only never gets a writer built, and translate never recurses without end
\* on it.
C1_CycleReported ==
    Feedback => (~Built /\ err # "overflow")

\* C2: with a box and no feedback among gates and boxes, ordering reports no
\* cycle, and box_list holds every box once, each after the boxes it
\* depends on.
C2_BoxOrder ==
    (BoxCells # {} /\ ~Feedback) =>
        /\ err # "no_loops"
        /\ pc \in {"split", "undriven", "number", "outputs", "built", "written", "done"} =>
              /\ Len(xw.box_list) = Cardinality(BoxCells)
              /\ Range(xw.box_list) = BoxCells
              /\ \A X, Y \in BoxCells :
                    DependsOn(X, Y) => Position(xw.box_list, Y) < Position(xw.box_list, X)

C2_Witness ==
    /\ pc = "split"
    /\ ~Feedback
    /\ \E i \in 1..Len(module.cells) : module.cells[i].type = "FF"
    /\ \E X, Y \in BoxCells :
          /\ X < Y
          /\ DependsOn(X, Y)
          /\ ~Feeds(Y, X)
          /\ xw.box_list = <<Y, X>>

\* C3: the header counters of a built writer satisfy M = I + L + A with
\* L = 0, I one variable per primary input, register and box input bit, and
\* A the length of the gate list.
C3_HeaderCounters ==
    /\ Built =>
          /\ xw.aig_m = xw.aig_i + xw.aig_l + xw.aig_a
          /\ xw.aig_l = 0
          /\ xw.aig_i = Cardinality(xw.input_bits) + Len(xw.ff_bits) + Len(xw.ci_bits)
          /\ xw.aig_a = Len(xw.aig_gates)
    /\ pc \in {"written", "done"} =>
          /\ out.f.header = <<xw.aig_m, xw.aig_i, 0, xw.aig_o, xw.aig_a>>
          /\ out.f.header[1] = out.f.header[2] + out.f.header[3] + out.f.header[5]
          /\ out.f.header[5] = Len(xw.aig_gates)

C3_Witness ==
    /\ pc = "written"
    /\ xw.aig_a >= 1
    /\ xw.input_bits # {}
    /\ xw.ff_bits # <<>>
    /\ xw.ci_bits # <<>>

\* The literal the build gave a bit, NONE when it gave none.
Literal(bit) == IF Has(xw.aig_map, bit) THEN xw.aig_map[bit] ELSE NONE

\* The cells of the co_bits in the order they first appear.
RECURSIVE CoCells(_)
CoCells(k) ==
    IF k = 0 THEN <<>>
    ELSE LET before == CoCells(k - 1)
             c == xw.co_bits[k].cell
         IN  IF before # <<>> /\ before[Len(before)] = c THEN before ELSE Append(before, c)

\* C4: the output list of a built writer is the literals of co_bits in box
\* order, then of the sorted primary outputs, then one per register; its
\* length is the header count O and the coNum of the 'h' section.
C4_OutputList ==
    /\ Built =>
          LET nco == Len(xw.co_bits)
              po == Sorted(Now, holes_mode, xw.output_bits)
              nff == Len(xw.ff_bits)
          IN  /\ Len(xw.aig_outputs) = nco + Len(po) + nff
              /\ xw.aig_o = Len(xw.aig_outputs)
              /\ \A k \in 1..nco : xw.aig_outputs[k] = Literal(xw.co_bits[k].bit)
              /\ \A k \in 1..Len(po) : xw.aig_outputs[nco + k] = Literal(po[k])
              /\ \A i, j \in 1..Len(CoCells(nco)) :
                    i < j => Position(xw.box_list, CoCells(nco)[i])
                                < Position(xw.box_list, CoCells(nco)[j])
    /\ pc \in {"written", "done"} =>
          /\ out.f.header[4] = Len(xw.aig_outputs)
          /\ out.f.outputs = xw.aig_outputs
          /\ out.f.h[3] = Len(xw.co_bits) + Cardinality(xw.output_bits) + Len(xw.ff_bits)
          /\ out.f.h[3] = out.f.header[4]

C4_Witness ==
    /\ pc = "written"
    /\ xw.co_bits # <<>>
    /\ ~xw.omode
    /\ xw.ff_bits # <<>>
    /\ Len(xw.aig_outputs) >= 3

\* The variable of gate i of the gate list (i from 0), as write_aiger has it.
Lhs(i) == 2 * (xw.aig_i + xw.aig_l + i) + 2

\* C5: every gate of a built writer has lhs > rhs0 >= rhs1, and the pass
\* never stops on a negative delta.
C5_GateOrder ==
    /\ Built =>
          \A i \in 0..(Len(xw.aig_gates) - 1) :
              /\ Lhs(i) > xw.aig_gates[i + 1][1]
              /\ xw.aig_gates[i + 1][1] >= xw.aig_gates[i + 1][2]
    /\ err # "x >= 0"

C5_Witness ==
    /\ pc = "written"
    /\ ~out.f.ascii
    /\ Len(out.f.bytes) >= 4
    /\ \E bit \in DOMAIN xw.and_map :
          /\ Has(xw.visits, bit)
          /\ Literal(xw.and_map[bit][1]) # NONE
          /\ Literal(xw.and_map[bit][1]) < Literal(xw.and_map[bit][2])

\* The reader of the AIGER binary format: the integer the bytes start with
\* and the bytes after it.
RECURSIVE DecodeOne(_, _, _)
DecodeOne(bytes, acc, weight) ==
    IF bytes = <<>> THEN [x |-> NONE, rest |-> <<>>]
    ELSE IF Head(bytes) >= 128
    THEN DecodeOne(Tail(bytes), acc + (Head(bytes) - 128) * weight, weight * 128)
    ELSE [x |-> acc + Head(bytes) * weight, rest |-> Tail(bytes)]

RECURSIVE Decode(_)
Decode(bytes) ==
    IF bytes = <<>> THEN <<>>
    ELSE LET d == DecodeOne(bytes, 0, 1) IN <<d.x>> \o Decode(d.rest)

\* C6: the bytes aiger_encode wrote for a sequence of non-negative integers
\* are bytes, and decode to that sequence.
C6_EncodeDecode ==
    /\ \A k \in 1..Len(enc.bytes) : enc.bytes[k] \in 0..255
    /\ Decode(enc.bytes) = enc.written

C6_Witness ==
    /\ Len(enc.written) >= 2
    /\ enc.written[1] >= 16384
    /\ enc.written[2] \in 128..16383
    /\ Len(enc.bytes) >= 5

\* The bits translate made a gate for, and the literals of their operands.
TranslatedAnd == {b \in DOMAIN xw.and_map : Has(xw.visits, b) /\ ~Has(xw.not_map, b)}

OperandLits(b) == {Literal(xw.and_map[b][1]), Literal(xw.and_map[b][2])}

GatesOf(b) == {i \in 1..Len(xw.aig_gates) :
                 {xw.aig_gates[i][1], xw.aig_gates[i][2]} = OperandLits(b)}

\* C8 (as stated): two bits of the AND relation whose operands have the same
\* literals have the same gate literal, and the gate list holds that pair
\* once.
C8_OneGatePerPair ==
    Built =>
        \A b1, b2 \in TranslatedAnd :
            (b1 # b2 /\ OperandLits(b1) = OperandLits(b2)) =>
                /\ Literal(b1) = Literal(b2)
                /\ Cardinality(GatesOf(b1)) = 1

\* C8 (amended): translate makes one gate for each bit of the AND relation
\* it visits, whatever the operands: the bit is visited once, its literal
\* is the variable of a gate that holds its operands larger first, and no
\* two bits share a gate.
C8_OneGatePerBit ==
    Built =>
        /\ xw.aig_a = Cardinality(TranslatedAnd)
        /\ \A b \in TranslatedAnd :
              LET i == (Literal(b) \div 2) - xw.aig_i - xw.aig_l
              IN  /\ xw.visits[b] = 1
                  /\ Literal(b) % 2 = 0
                  /\ i \in 1..Len(xw.aig_gates)
                  /\ i \in GatesOf(b)
        /\ \A b1, b2 \in TranslatedAnd : b1 # b2 => Literal(b1) # Literal(b2)

C8_Witness ==
    /\ Built
    /\ \E b1, b2 \in TranslatedAnd :
          /\ b1 # b2
          /\ OperandLits(b1) = OperandLits(b2)
          /\ Literal(b1) # Literal(b2)
          /\ Cardinality(GatesOf(b1)) = 2

\* The lines write_map wrote for the dummy output.
DummyLines == {k \in 1..Len(out.map) : out.map[k].kind = "output" /\ out.map[k].name = NONE}

\* C9: when the outputs are built with an empty output_bits, the primary
\* output group of the output list is the one literal 0, and write_map
\* writes one line for it and no other output line.
C9_DummyOutput ==
    /\ [][(pc = "outputs" /\ xw.output_bits = {} /\ pc' = "built") =>
            /\ xw'.output_bits = {S0}
            /\ Len(xw'.aig_outputs) = Len(xw.co_bits) + 1 + Len(xw.ff_bits)
            /\ xw'.aig_outputs[Len(xw.co_bits) + 1] = 0
            /\ xw'.aig_o = Len(xw'.aig_outputs)]_vars
    /\ [][(pc = "written" /\ xw.output_bits = {S0} /\ pc' = "done") =>
            /\ Cardinality({k \in 1..Len(out'.map) : out'.map[k].kind = "output"}) = 1
            /\ \E k \in 1..Len(out'.map) : out'.map[k] = DummyLine(0)]_vars

C9_Witness ==
    /\ pc = "done"
    /\ xw.output_bits = {S0}
    /\ xw.omode
    /\ xw.co_bits # <<>>
    /\ Cardinality(DummyLines) = 1

SplitBits == {bit \in xw.input_bits : InoutWire(bit) \in xw.output_bits}

\* C11 (as stated): the wire made for a split bit has the literal of the bit.
C11_SameLiteral ==
    Built => \A bit \in SplitBits : Literal(InoutWire(bit)) = Literal(bit)

\* C11 (amended): the wire made for a split bit has the literal of what
\* defines the bit: the inverse of the operand of its inverter, a gate of
\* its own over the operands of its AND, the literal of its alias, and the
\* literal of the bit itself only when nothing defines it.
C11_InheritsDriver ==
    Built =>
        \A bit \in SplitBits :
            LET new_lit == Literal(InoutWire(bit))
                i == (new_lit \div 2) - xw.aig_i - xw.aig_l
            IN  /\ Literal(bit) \in {2 * k : k \in 1..xw.aig_i}
                /\ IF Has(xw.not_map, bit)
                   THEN new_lit = Xor1(Literal(xw.not_map[bit]))
                   ELSE IF Has(xw.and_map, bit)
                   THEN /\ new_lit % 2 = 0
                        /\ i \in 1..Len(xw.aig_gates)
                        /\ {xw.aig_gates[i][1], xw.aig_gates[i][2]}
                              = {Literal(xw.and_map[bit][1]), Literal(xw.and_map[bit][2])}
                   ELSE IF Has(xw.alias_map, bit)
                   THEN new_lit = Literal(xw.alias_map[bit])
                   ELSE new_lit = Literal(bit)

C11_Witness ==
    /\ Built
    /\ \E bit \in SplitBits :
          /\ Has(xw.not_map, bit)
          /\ Literal(InoutWire(bit)) # Literal(bit)
    /\ \E bit \in SplitBits :
          /\ ~Has(xw.not_map, bit) /\ ~Has(xw.and_map, bit)
          /\ Literal(InoutWire(bit)) = Literal(bit)

\* The entry of the output list for register k, NONE when there is none.
FfEntry(k) ==
    LET at == Len(xw.co_bits) + Cardinality(xw.output_bits) + k
    IN  IF at \in 1..Len(xw.aig_outputs) THEN xw.aig_outputs[at] ELSE NONE

\* The places of a bit among the ci_bits.
CiPlaces(bit) == {j \in 1..Len(xw.ci_bits) : xw.ci_bits[j].bit = bit}

\* The outputs were being built when the pass stopped on a missing key.
OutputsOutOfRange ==
    pc = "failed" /\ err = "out_of_range" /\ out = NoOutput /\ DOMAIN xw.ordered_outputs # {}

Extended == pc \in {"written", "done"} /\ (xw.box_list # <<>> \/ xw.ff_bits # <<>>)

\* The register's wire is declared with the initial value 1.
InitOne(k) == module.wires[xw.ff_bits[k].bit].init = S1

\* C13 (as stated): the 's' payload is the 32-bit register count and then
\* one byte per register, 1 when the register starts at 1 and else 0.
C13_OneBytePerRegister ==
    Extended =>
        /\ Len(out.f.s) = 4 + Len(xw.ff_bits)
        /\ \A k \in 1..Len(xw.ff_bits) :
              4 + k \in 1..Len(out.f.s) /\ out.f.s[4 + k] = (IF InitOne(k) THEN 1 ELSE 0)

\* C13 (amended): the 's' payload is the 32-bit register count and then one
\* 32-bit word per register, the most significant byte first, 1 when the
\* register starts at 1 and else 0: 4 + 4 * regCount bytes.
C13_OneWordPerRegister ==
    Extended =>
        /\ Len(out.f.s) = 4 + 4 * Len(xw.ff_bits)
        /\ SubSeq(out.f.s, 1, 4) = <<0, 0, 0, Len(xw.ff_bits)>>
        /\ \A k \in 1..Len(xw.ff_bits) :
              SubSeq(out.f.s, 4 * k + 1, 4 * k + 4) = <<0, 0, 0, IF InitOne(k) THEN 1 ELSE 0>>

C13_Witness ==
    /\ Extended
    /\ \E k \in 1..Len(xw.ff_bits) : InitOne(k) /\ Len(out.f.s) = 8

\* The variable of the j-th of the ci_bits, after the primary inputs and
\* the registers.
CiLiteral(j) == 2 * (Cardinality(xw.input_bits) + Len(xw.ff_bits) + j)

\* The place of a port among the ports of its box.
PortPlace(type, name) ==
    CHOOSE k \in 1..Len(BoxPorts(type)) : BoxPorts(type)[k].name = name

\* Record i of the ci_bits comes before record j by box order, then port order.
CiBefore(i, j) ==
    LET ci == xw.ci_bits[i]
        cj == xw.ci_bits[j]
    IN  \/ Position(xw.box_list, ci.cell) < Position(xw.box_list, cj.cell)
        \/ /\ ci.cell = cj.cell
           /\ PortPlace(module.cells[ci.cell].type, ci.port)
                < PortPlace(module.cells[cj.cell].type, cj.port)

\* C14: the constants have the literals 0 and 1; the variables 1..I go, one
\* each and in this order, to the sorted primary inputs, the registers and
\* the ci_bits (by box, then by port); every gate has a variable above I,
\* and the ASCII writer's input k is 2k.
C14_InputNumbering ==
    /\ pc \in {"outputs", "built", "written", "done"} =>
          LET pi == Sorted(Now, holes_mode, xw.input_bits)
          IN  /\ Literal(S0) = 0 /\ Literal(S1) = 1
              /\ xw.aig_i = Len(pi) + Len(xw.ff_bits) + Len(xw.ci_bits)
              /\ \A k \in 1..Len(pi) : Literal(pi[k]) = 2 * k
              /\ \A k \in 1..Len(xw.ff_bits) : Literal(xw.ff_bits[k].bit) = 2 * (Len(pi) + k)
              /\ \A j \in 1..Len(xw.ci_bits) :
                    LET bit == xw.ci_bits[j].bit
                    IN  IF bit \in FfKeys(xw) \/ \E i \in CiPlaces(bit) : i < j
                        THEN /\ Literal(bit) < CiLiteral(j)
                             /\ Has(loc.ff_aig_map, bit)
                             /\ (\A i \in CiPlaces(bit) : i <= j) => loc.ff_aig_map[bit] = CiLiteral(j)
                        ELSE Literal(bit) = CiLiteral(j)
              /\ \A i, j \in 1..Len(xw.ci_bits) : i < j => CiBefore(i, j)
              /\ \A i \in 0..(Len(xw.aig_gates) - 1) : Lhs(i) > 2 * xw.aig_i
              /\ \A bit \in TranslatedAnd : Literal(bit) > 2 * xw.aig_i
    /\ (pc \in {"written", "done"} /\ out.f.ascii) =>
          out.f.inputs = [k \in 1..xw.aig_i |-> 2 * k]

C14_Witness ==
    /\ pc = "written"
    /\ out.f.ascii
    /\ xw.input_bits # {}
    /\ xw.ff_bits # <<>>
    /\ xw.ci_bits # <<>>
    /\ xw.aig_a >= 1

\* The declared-output or kept wire bits whose canonical bit is constant c.
OutputsTiedTo(c) ==
    {w \in DOMAIN module.wires :
        /\ w < PadBase
        /\ module.wires[w].port_output \/ module.wires[w].keep
        /\ sigmap(loc.sigmap, w) = c}

\* Some cell other than a gate, register or box is connected to the bit.
OnOtherCell(w) ==
    \E i \in 1..Len(module.cells) :
        /\ module.cells[i].type \in {"KNOWN", "UNKNOWN"}
        /\ w \in {module.cells[i].a, module.cells[i].b, module.cells[i].y}

\* The bit, or the wire the splitting made for it, has an entry in the
\* output list.
HasEntry(w) == \E o \in {w, InoutWire(w)} : Has(xw.ordered_outputs, o)

UndrivenStep == pc = "undriven" /\ pc' = "number"

\* No cell and no connection touches the wire, and it is no port.
Untouched(w) ==
    /\ ~module.wires[w].port_input /\ ~module.wires[w].port_output /\ ~module.wires[w].keep
    /\ \A i \in 1..Len(module.cells) :
          w \notin {module.cells[i].a, module.cells[i].b, module.cells[i].y,
                    module.cells[i].currQ}
    /\ \A c \in module.connections : w \notin {c[1], c[2]}

\* C16 (as stated): every bit left without a producer becomes a primary
\* input, read or not.
C16_UndrivenBecomeInputs ==
    [][UndrivenStep => loc.undriven_bits \subseteq xw'.input_bits]_vars

\* C16 (amended): outside holes mode the bits left without a producer that
\* some cell or output reads become primary inputs, each with a variable
\* of its own; the unread ones, and in holes mode all of them, do not.
C16_UsedUndrivenBecomeInputs ==
    /\ [][UndrivenStep =>
            xw'.input_bits = xw.input_bits \cup
                (IF holes_mode THEN {} ELSE loc.undriven_bits \ loc.unused_bits)]_vars
    /\ [](Built =>
            /\ \A b \in xw.input_bits : Literal(b) \in {2 * k : k \in 1..Cardinality(xw.input_bits)}
            /\ \A b, c \in xw.input_bits : b # c => Literal(b) # Literal(c)
            /\ \A w \in DOMAIN module.wires : Untouched(w) => w \notin xw.input_bits)

C16_Witness ==
    /\ Built
    /\ ~holes_mode
    /\ \E b \in xw.input_bits : ~module.wires[b].port_input /\ ~module.wires[b].keep
                                 /\ b \in loc.undriven_bits
    /\ \E w \in DOMAIN module.wires : w < PadBase /\ Untouched(w) /\ w \notin xw.input_bits

\* The bits the inverter, AND and alias relations lead to from a bit.
Defining(b) ==
    (IF Has(xw.not_map, b) THEN {xw.not_map[b]} ELSE {})
    \cup (IF Has(xw.and_map, b) THEN {xw.and_map[b][1], xw.and_map[b][2]} ELSE {})
    \cup (IF Has(xw.alias_map, b) THEN {xw.alias_map[b]} ELSE {})

RECURSIVE DefinedFrom(_)
DefinedFrom(S) ==
    LET T == S \cup UNION {Defining(b) : b \in S}
    IN  IF T = S THEN S ELSE DefinedFrom(T)

RelationBits == DOMAIN xw.not_map \cup DOMAIN xw.and_map \cup DOMAIN xw.alias_map

RelationsAcyclic == \A b \in RelationBits : b \notin DefinedFrom(Defining(b))

\* C17: with no cycle in the inverter, AND and alias relations, translate
\* always returns, the defining branch runs at most once for a bit, and
\* there are at most as many gates as bits in the AND relation.
C17_TranslateOnce ==
    RelationsAcyclic =>
        /\ err # "overflow"
        /\ \A b \in DOMAIN xw.visits : xw.visits[b] = 1
        /\ xw.aig_a <= Cardinality(DOMAIN xw.and_map)
        /\ Len(xw.aig_gates) <= Cardinality(DOMAIN xw.and_map)

C17_Witness ==
    /\ Built
    /\ RelationsAcyclic
    /\ \E g \in DOMAIN xw.and_map :
          /\ Has(xw.visits, g)
          /\ xw.and_map[g][1] = xw.and_map[g][2]
          /\ xw.and_map[g][1] \in DOMAIN xw.not_map \cup DOMAIN xw.and_map
          /\ Has(xw.visits, xw.and_map[g][1])

\* C18: once construction has succeeded every register of ff_bits has a
\* mergeability class above 0, so the assertion of the 'r' section holds.
C18_ClassAssigned ==
    /\ Built => \A k \in 1..Len(xw.ff_bits) : xw.ff_bits[k].cls > 0
    /\ err # "i.second > 0"

=============================================================================
